---------------------------- MODULE Spec2Model ----------------------------
(***************************************************************************)
(* Model of the Kafka connectivity check: KafkaHealthService.onModuleInit  *)
(* (preflight DNS + TCP probes, admin connect, listTopics, the hint        *)
(* classifier), tcpProbe, onModuleDestroy and the bootstrap of main.ts.    *)
(*                                                                         *)
(* Strings are sequences of one-character strings, so that split, trim,    *)
(* toLowerCase and includes are computed, not assumed.                     *)
(***************************************************************************)
EXTENDS Integers, Sequences, FiniteSets

VARIABLES
    impl,          \* which KafkaHealthService runs: "diag" (part_000) or "basic" (kafka.service.ts)
    envBrokers,    \* process.env.KAFKA_BROKERS, a string
    debugKafkaJs,  \* KAFKA_DEBUG parsed to a boolean
    username,      \* process.env.KAFKA_USERNAME || '', a string
    password,      \* process.env.KAFKA_PASSWORD || '', a string
    pc,            \* position of onModuleInit
    brokers,       \* the parsed broker tokens
    idx,           \* index of the broker the preflight loop is at (1-based)
    sock,          \* state of the net.Socket of the tcpProbe in progress
    listeners,     \* socket events whose once-listener is still registered
    settled,       \* state of the tcpProbe promise
    doneCalls,     \* calls of tcpProbe's done callback in the probe in progress
    sockets,       \* final state of the socket of every finished tcpProbe
    dnsCalls,      \* number of dns.lookup calls
    tcpCalls,      \* number of tcpProbe calls
    admin,         \* this.admin: "undefined", "created", "connected", "disconnected"
    connectCalls,  \* number of admin.connect() calls
    listCalls,     \* number of admin.listTopics() calls
    disconnectCalls, \* number of admin.disconnect() calls
    failedAt,      \* the await that rejected into the catch block: "none", "connect", "listTopics"
    caught,        \* the error the catch block received
    log,           \* the records emitted through the Nest logger, in order
    exitCode,      \* process.exitCode
    bpc,           \* position of bootstrap() in main.ts
    hpc,           \* position of each signal handler
    exited,        \* "no", or how the process ended
    cmsg,          \* classifier harness: the error message under test
    chints,        \* classifier harness: hypotheses emitted for cmsg by each classifier
    sasl,          \* the sasl option new Kafka(...) was given
    clientLog,     \* the entries kafkajs handed to nestKafkaLogger, each with the level it was emitted at
    masked         \* mask harness: mask(password), then mask of that

vars == <<impl, envBrokers, debugKafkaJs, username, password, pc, brokers, idx, sock, listeners,
          settled, doneCalls, sockets, dnsCalls, tcpCalls, admin, connectCalls,
          listCalls, disconnectCalls, failedAt, caught, log, exitCode, bpc, hpc,
          exited, cmsg, chints, sasl, clientLog, masked>>

-----------------------------------------------------------------------------
(* Bounds of the model *)

\* Number of comma-separated tokens KAFKA_BROKERS is made of
MaxTokens == 2

\* The same in the runs with credentials and client log entries
MaxLoggingTokens == 1

\* Number of log entries kafkajs surfaces in one run
MaxClientLogs == 1

\* Length of the strings mask is applied to
MaxMaskLen == 5

\* The same, in the runs that go on to the shutdown of the process
MaxShutdownTokens == 1

\* Number of fragments an error message of the classifier harness is made of
MaxFrags == 2

-----------------------------------------------------------------------------
(* JavaScript string primitives *)

UpperToLower ==
    [c \in {"A","B","C","D","E","F","G","H","I","J","K","L","M","N","O","P","Q",
            "R","S","T","U","V","W","X","Y","Z"} |->
        CASE c = "A" -> "a" [] c = "B" -> "b" [] c = "C" -> "c" [] c = "D" -> "d"
          [] c = "E" -> "e" [] c = "F" -> "f" [] c = "G" -> "g" [] c = "H" -> "h"
          [] c = "I" -> "i" [] c = "J" -> "j" [] c = "K" -> "k" [] c = "L" -> "l"
          [] c = "M" -> "m" [] c = "N" -> "n" [] c = "O" -> "o" [] c = "P" -> "p"
          [] c = "Q" -> "q" [] c = "R" -> "r" [] c = "S" -> "s" [] c = "T" -> "t"
          [] c = "U" -> "u" [] c = "V" -> "v" [] c = "W" -> "w" [] c = "X" -> "x"
          [] c = "Y" -> "y" [] c = "Z" -> "z"]

\* String.prototype.toLowerCase
ToLowerCase(s) ==
    [i \in DOMAIN s |-> IF s[i] \in DOMAIN UpperToLower THEN UpperToLower[s[i]] ELSE s[i]]

\* String.prototype.includes
Includes(s, p) ==
    \E i \in 0..(Len(s) - Len(p)) : SubSeq(s, i + 1, i + Len(p)) = p

\* Index of the first occurrence of character c in s, 0 when there is none
IndexOf(s, c) ==
    IF \E i \in DOMAIN s : s[i] = c
    THEN CHOOSE i \in DOMAIN s : s[i] = c /\ \A j \in 1..(i - 1) : s[j] # c
    ELSE 0

RECURSIVE Split(_, _)
\* String.prototype.split on a one-character separator
Split(s, c) ==
    LET k == IndexOf(s, c)
    IN  IF k = 0 THEN <<s>>
        ELSE <<SubSeq(s, 1, k - 1)>> \o Split(SubSeq(s, k + 1, Len(s)), c)

RECURSIVE TrimStart(_)
TrimStart(s) ==
    IF s # <<>> /\ Head(s) = " " THEN TrimStart(Tail(s)) ELSE s

RECURSIVE TrimEnd(_)
TrimEnd(s) ==
    IF s # <<>> /\ s[Len(s)] = " " THEN TrimEnd(SubSeq(s, 1, Len(s) - 1)) ELSE s

\* String.prototype.trim
Trim(s) == TrimEnd(TrimStart(s))

\* Array.prototype.filter(Boolean) on an array of strings: drops the empty ones
FilterNonEmpty(ss) == SelectSeq(ss, LAMBDA t : t # <<>>)

MapTrim(ss) == [i \in DOMAIN ss |-> Trim(ss[i])]

\* The value Number() returns for a string that is not a number
NaN == -1

DigitValue ==
    [c \in {"0","1","2","3","4","5","6","7","8","9"} |->
        CASE c = "0" -> 0 [] c = "1" -> 1 [] c = "2" -> 2 [] c = "3" -> 3
          [] c = "4" -> 4 [] c = "5" -> 5 [] c = "6" -> 6 [] c = "7" -> 7
          [] c = "8" -> 8 [] c = "9" -> 9]

RECURSIVE Decimal(_)
Decimal(s) ==
    IF s = <<>> THEN 0
    ELSE 10 * Decimal(SubSeq(s, 1, Len(s) - 1)) + DigitValue[s[Len(s)]]

\* Number(string): surrounding white space is ignored, the empty string is 0,
\* a string of decimal digits is its value, anything else the model's
\* alphabet can spell is NaN
ToNumber(s) ==
    LET t == Trim(s)
    IN  IF t = <<>> THEN 0
        ELSE IF \A i \in DOMAIN t : t[i] \in DOMAIN DigitValue THEN Decimal(t)
        ELSE NaN

-----------------------------------------------------------------------------
(* String literals of the program and of the error messages it is run on *)

StrClosedConnection ==
    <<"c","l","o","s","e","d"," ","c","o","n","n","e","c","t","i","o","n">>

StrSasl ==
    <<"s","a","s","l">>

StrAuthentication ==
    <<"a","u","t","h","e","n","t","i","c","a","t","i","o","n">>

StrNotAuthorized ==
    <<"n","o","t"," ","a","u","t","h","o","r","i","z","e","d">>

StrSsl ==
    <<"s","s","l">>

StrTls ==
    <<"t","l","s">>

StrCertificate ==
    <<"c","e","r","t","i","f","i","c","a","t","e">>

StrSelfSigned ==
    <<"s","e","l","f"," ","s","i","g","n","e","d">>

StrEnotfound ==
    <<"e","n","o","t","f","o","u","n","d">>

StrGetaddrinfo ==
    <<"g","e","t","a","d","d","r","i","n","f","o">>

StrNameResolution ==
    <<"n","a","m","e"," ","r","e","s","o","l","u","t","i","o","n">>

StrEconnrefused ==
    <<"e","c","o","n","n","r","e","f","u","s","e","d">>

StrTimedOut ==
    <<"t","i","m","e","d"," ","o","u","t">>

StrEtimedout ==
    <<"e","t","i","m","e","d","o","u","t">>

StrMetadata ==
    <<"m","e","t","a","d","a","t","a">>

StrLeader ==
    <<"l","e","a","d","e","r">>

StrBrokerNotAvailable ==
    <<"b","r","o","k","e","r"," ","n","o","t"," ","a","v","a","i","l","a",
    "b","l","e">>

StrNotALeader ==
    <<"n","o","t"," ","a"," ","l","e","a","d","e","r">>

StrUnknownError ==
    <<"U","n","k","n","o","w","n","E","r","r","o","r">>

StrDash ==
    <<" ","-"," ">>

StrError ==
    <<"E","r","r","o","r">>

MsgSaslOverSsl ==
    <<"S","A","S","L"," ","a","u","t","h","e","n","t","i","c","a","t","i",
    "o","n"," ","f","a","i","l","e","d"," ","d","u","e"," ","t","o"," ","S",
    "S","L"," ","h","a","n","d","s","h","a","k","e"," ","e","r","r","o",
    "r">>

MsgClosedConnection ==
    <<"C","l","o","s","e","d"," ","c","o","n","n","e","c","t","i","o","n">>

MsgEnotfound ==
    <<"g","e","t","a","d","d","r","i","n","f","o"," ","E","N","O","T","F",
    "O","U","N","D"," ","b","a","d","h","o","s","t">>

MsgEconnrefused ==
    <<"c","o","n","n","e","c","t"," ","E","C","O","N","N","R","E","F","U",
    "S","E","D">>

MsgTimedOut ==
    <<"R","e","q","u","e","s","t"," ","t","i","m","e","d"," ","o","u","t">>

MsgNotAuthorized ==
    <<"N","o","t"," ","a","u","t","h","o","r","i","z","e","d">>

MsgBrokerNotAvailable ==
    <<"B","r","o","k","e","r"," ","n","o","t"," ","a","v","a","i","l","a",
    "b","l","e">>

\* A reset reported with the TLS layer named in the message
MsgTlsClosedConnection == <<"T","L","S",":"," ">> \o MsgClosedConnection

NameConnectionError ==
    <<"K","a","f","k","a","J","S","C","o","n","n","e","c","t","i","o","n",
    "E","r","r","o","r">>

-----------------------------------------------------------------------------
(* Program constants *)

\* The port used when a broker token names none
DefaultPort == 9092

\* Lines of err.stack the catch block of part_000 keeps
StackTopLines == 8

-----------------------------------------------------------------------------
(* The broker list: lines 50-51 and 99-100 of part_000 *)

\* brokersRaw.split(',').map((b) => b.trim()).filter(Boolean)
ParseBrokers(raw) == FilterNonEmpty(MapTrim(Split(raw, ",")))

\* const [host, portStr] = broker.split(':')
HostOf(broker) == Split(broker, ":")[1]

\* portStr, <<>> standing for both undefined and '' (each is falsy)
PortStrOf(broker) ==
    LET parts == Split(broker, ":")
    IN  IF Len(parts) >= 2 THEN parts[2] ELSE <<>>

\* Number(portStr || 9092)
PortOf(broker) ==
    IF PortStrOf(broker) = <<>> THEN DefaultPort ELSE ToNumber(PortStrOf(broker))

\* The ports socket.connect(port, host) accepts; on any other it throws
\* ERR_SOCKET_BAD_PORT synchronously
ValidPort(port) == port # NaN /\ port >= 0 /\ port <= 65535

-----------------------------------------------------------------------------
(* mask (part_000 lines 16-20) *)

StrStars == <<"*","*","*","*">>

Max(a, b) == IF a >= b THEN a ELSE b

\* value.slice(0, n)
SliceHead(value, n) == SubSeq(value, 1, IF n <= Len(value) THEN n ELSE Len(value))

\* value.slice(-n)
SliceTail(value, n) == SubSeq(value, Max(1, Len(value) - n + 1), Len(value))

\* mask without the fallback of line 18
MaskNoFallback(value) ==
    IF value = <<>> THEN <<>>
    ELSE SliceHead(value, 2) \o StrStars \o SliceTail(value, 2)

\* function mask(value?: string)
Mask(value) ==
    IF value = <<>> THEN <<>>
    ELSE IF Len(value) <= 4 THEN StrStars
    ELSE SliceHead(value, 2) \o StrStars \o SliceTail(value, 2)

-----------------------------------------------------------------------------
(* The classifiers of the two catch blocks *)

\* The test of 'closed connection' folded into the condition of the TLS hint
DiagFamiliesResetIsTls ==
    << [hyp |-> "CONNECTION_RESET", patterns |-> {StrClosedConnection}],
       [hyp |-> "SASL_AUTH_FAILURE", patterns |-> {StrSasl, StrAuthentication}],
       [hyp |-> "TLS_MISMATCH",
        patterns |-> {StrSsl, StrTls, StrCertificate, StrSelfSigned,
                      StrClosedConnection}],
       [hyp |-> "DNS_UNRESOLVED", patterns |-> {StrEnotfound, StrGetaddrinfo}],
       [hyp |-> "NETWORK_UNREACHABLE", patterns |-> {StrTimedOut, StrEtimedout}],
       [hyp |-> "LEADER_METADATA_MISMATCH", patterns |-> {StrMetadata, StrLeader}] >>

\* part_000 lines 216-250, in the order of the if statements
DiagFamilies ==
    << [hyp |-> "CONNECTION_RESET", patterns |-> {StrClosedConnection}],
       [hyp |-> "SASL_AUTH_FAILURE", patterns |-> {StrSasl, StrAuthentication}],
       [hyp |-> "TLS_MISMATCH",
        patterns |-> {StrSsl, StrTls, StrCertificate, StrSelfSigned}],
       [hyp |-> "DNS_UNRESOLVED", patterns |-> {StrEnotfound, StrGetaddrinfo}],
       [hyp |-> "NETWORK_UNREACHABLE", patterns |-> {StrTimedOut, StrEtimedout}],
       [hyp |-> "LEADER_METADATA_MISMATCH", patterns |-> {StrMetadata, StrLeader}] >>

\* kafka.service.ts lines 66-80, in the order of the if statements
BasicFamilies ==
    << [hyp |-> "SASL_AUTH_FAILURE",
        patterns |-> {StrSasl, StrAuthentication, StrNotAuthorized}],
       [hyp |-> "TLS_MISMATCH",
        patterns |-> {StrSsl, StrTls, StrCertificate, StrSelfSigned}],
       [hyp |-> "DNS_UNRESOLVED",
        patterns |-> {StrGetaddrinfo, StrEnotfound, StrNameResolution}],
       [hyp |-> "NETWORK_UNREACHABLE",
        patterns |-> {StrEconnrefused, StrTimedOut, StrEtimedout}],
       [hyp |-> "LEADER_METADATA_MISMATCH",
        patterns |-> {StrBrokerNotAvailable, StrNotALeader, StrMetadata}] >>

FamiliesOf(which) == IF which = "diag" THEN DiagFamilies ELSE BasicFamilies

\* The condition of one if statement: msg.includes(p1) || msg.includes(p2) ...
FamilyHit(fam, msg) == \E p \in fam.patterns : Includes(msg, p)

\* An else-if chain: a family is only tested when no earlier one matched
FamilyStepElseIf(acc, hyp, hit) ==
    IF hit /\ acc = <<>> THEN Append(acc, hyp) ELSE acc

\* One statement `if (<hit>) this.logger.error(<hint of hyp>)`
FamilyStep(acc, hyp, hit) ==
    IF hit THEN Append(acc, hyp) ELSE acc

RECURSIVE RunFamilies(_, _, _, _)
\* The if statements of fams, executed in the order `order` names them
RunFamilies(fams, order, hit, acc) ==
    IF order = <<>> THEN acc
    ELSE RunFamilies(fams, Tail(order), hit,
                     FamilyStep(acc, fams[Head(order)].hyp, hit[Head(order)]))

\* The hypotheses the catch block logs for the lower-cased message msg
Classify(which, msg) ==
    LET fams == FamiliesOf(which)
        hit  == [f \in DOMAIN fams |-> FamilyHit(fams[f], msg)]
    IN  RunFamilies(fams, [f \in DOMAIN fams |-> f], hit, <<>>)

-----------------------------------------------------------------------------
(* Log records and errors *)

\* One record emitted through the Nest logger: its level, what it reports,
\* and the number and the text it carries
Rec(lvl, tag, n, text) == [lvl |-> lvl, tag |-> tag, n |-> n, text |-> text]

Tags(lg) == {lg[i].tag : i \in DOMAIN lg}

Min(a, b) == IF a <= b THEN a ELSE b

\* String(err) of an Error whose message is empty: its name, or "Error"
ErrToString(err) == IF err.name # <<>> THEN err.name ELSE StrError

\* `${err.name} - ${err.message}`, with no fallback for a missing name or message
ErrorTextNoFallback(err) == err.name \o StrDash \o err.message

\* `${err?.name || 'UnknownError'} - ${err?.message || err}`
ErrorText(err) ==
    (IF err.name # <<>> THEN err.name ELSE StrUnknownError) \o StrDash
        \o (IF err.message # <<>> THEN err.message ELSE ErrToString(err))

\* The records of the hypotheses, one per hint logged
HintRecs(hyps) == [i \in DOMAIN hyps |-> Rec("error", hyps[i], 0, <<>>)]

\* The catch block of part_000 (lines 202-255)
CatchDiag(err) ==
    << Rec("error", "CONNECTION_FAILED", 0, <<>>),
       Rec("error", "ERROR", 0, ErrorText(err)) >>
    \o (IF err.stack > 0
        THEN <<Rec("error", "STACK", Min(err.stack, StackTopLines), <<>>)>>
        ELSE <<>>)
    \o HintRecs(Classify("diag", ToLowerCase(err.message)))
    \o <<Rec("warn", "KEEP_ALIVE", 0, <<>>)>>

\* The catch block of kafka.service.ts (lines 59-84), but for process.exitCode
CatchBasic(err) ==
    << Rec("error", "CONNECTION_FAILED", 0, <<>>),
       Rec("error", "ERROR", 0, ErrorText(err)) >>
    \o HintRecs(Classify("basic", ToLowerCase(err.message)))

CatchRecs(which, err) == IF which = "diag" THEN CatchDiag(err) ELSE CatchBasic(err)

Hypotheses ==
    {"CONNECTION_RESET", "SASL_AUTH_FAILURE", "TLS_MISMATCH", "DNS_UNRESOLVED",
     "NETWORK_UNREACHABLE", "LEADER_METADATA_MISMATCH"}

\* The hypotheses a log carries
Diagnoses(lg) == Tags(lg) \cap Hypotheses

\* The verdict a log states: failure when it reports the empty broker list or
\* a failed connection, success when it reports the cluster reachable
Verdict(lg) ==
    IF Tags(lg) \cap {"BROKERS_EMPTY", "CONNECTION_FAILED"} # {} THEN "failure"
    ELSE IF "KAFKA_REACHABLE" \in Tags(lg) THEN "success"
    ELSE "none"

NoError == [name |-> <<>>, message |-> <<>>, stack |-> 0]

-----------------------------------------------------------------------------
(* Inputs *)

\* The comma-separated tokens KAFKA_BROKERS is spelled with: an empty and a
\* blank token, a host alone, a padded host:port, a host with an empty port,
\* a non-numeric port and a port out of range
TokenSamples ==
    { <<>>, <<" ">>, <<"a">>, <<" ","b",":","8","0"," ">>, <<"a",":">>,
      <<"a",":","x">>, <<"a",":","9","9","9","9","9">> }

RECURSIVE Join(_)
\* The tokens with a comma between each two
Join(ts) ==
    IF ts = <<>> THEN <<>>
    ELSE IF Len(ts) = 1 THEN ts[1]
    ELSE ts[1] \o <<",">> \o Join(Tail(ts))

RawInputsUpTo(k) ==
    {Join(ts) : ts \in UNION {[1..n -> TokenSamples] : n \in 0..k}}

RawInputs == RawInputsUpTo(MaxTokens)

\* The tokens of the runs with credentials: a host, and a host with a bad port
LoggingTokenSamples == { <<"a">>, <<"a",":","x">> }

LoggingInputs ==
    {Join(ts) : ts \in UNION {[1..n -> LoggingTokenSamples] : n \in 0..MaxLoggingTokens}}

\* The errors admin.connect() and admin.listTopics() are made to reject with
ErrorSamples ==
    { [name |-> NameConnectionError, message |-> MsgClosedConnection, stack |-> 10],
      [name |-> NameConnectionError, message |-> MsgEnotfound, stack |-> 3],
      [name |-> <<>>, message |-> MsgSaslOverSsl, stack |-> 0],
      [name |-> NameConnectionError, message |-> MsgTlsClosedConnection, stack |-> 0],
      [name |-> NameConnectionError, message |-> <<>>, stack |-> 3],
      [name |-> <<>>, message |-> <<>>, stack |-> 0] }

\* The socket events tcpProbe listens to, and the outcome it reports for each
SocketEvents == {"connect", "timeout", "error"}

OutcomeOf(e) ==
    CASE e = "connect" -> "success" [] e = "timeout" -> "timeout" [] e = "error" -> "error"

Signals == {"SIGTERM", "SIGINT"}

Pending == [state |-> "pending", outcome |-> "none"]

\* Classifier harness: a classifier that has not run yet
NotRun == [ran |-> FALSE, hyps |-> <<>>]

StrTimeoutAfter ==
    <<"t","i","m","e","o","u","t"," ","a","f","t","e","r"," ","4","0","0","0","m","s">>

\* probe.error: the timeout text of tcpProbe, or the message of the socket error
ProbeErrorText(outcome) ==
    IF outcome = "timeout" THEN StrTimeoutAfter ELSE MsgEconnrefused

\* The values KAFKA_USERNAME is given: unset, and a short name
Usernames == { <<>>, <<"b","o","b">> }

StrHunter2pass == <<"h","u","n","t","e","r","2","p","a","s","s">>

StrHunterXpass == <<"h","u","N","T","E","R","1","P","A","s","s">>

\* The values KAFKA_PASSWORD is given: unset, and two long passwords that
\* differ in their middle characters only
Passwords == { <<>>, StrHunter2pass, StrHunterXpass }

-----------------------------------------------------------------------------
(* The configuration print and the SASL option *)

StrNone == <<"n","o","n","e">>

\* (process.env.KAFKA_SASL_MECHANISM || 'plain').toLowerCase(), the variable unset
StrPlain == <<"p","l","a","i","n">>

StrEmptyParen == <<"(","e","m","p","t","y",")">>

\* `${username ? mechanism : 'none'}`
SaslMode(u) == IF u # <<>> THEN StrPlain ELSE StrNone

\* A credential printed as it is
ShownCredentialRaw(v) == IF v # <<>> THEN v ELSE StrEmptyParen

\* `${username ? mask(username) : '(empty)'}`, the same for the password
ShownCredential(v) == IF v # <<>> THEN Mask(v) ELSE StrEmptyParen

\* sasl: undefined
NoSasl == [set |-> FALSE, mechanism |-> <<>>, username |-> <<>>, password |-> <<>>]

\* sasl: username ? { mechanism, username, password } : undefined
SaslOption(u, p) ==
    IF u # <<>>
    THEN [set |-> TRUE, mechanism |-> StrPlain, username |-> u, password |-> p]
    ELSE NoSasl

\* part_000 lines 73-88: the configuration print
ConfigDiag(raw, bs, u, p) ==
    << Rec("log", "CONFIG", Len(bs), raw),
       Rec("log", "CONFIG_SASL", 0, SaslMode(u)),
       Rec("log", "CONFIG_USERNAME", 0, ShownCredential(u)),
       Rec("log", "CONFIG_PASSWORD", 0, ShownCredential(p)) >>

\* kafka.service.ts lines 29-33: the warning and the configuration line
ConfigBasic(bs, u, p) ==
    (IF u = <<>> \/ p = <<>>
     THEN <<Rec("warn", "CREDENTIALS_EMPTY", 0, <<>>)>>
     ELSE <<>>)
    \o << Rec("log", "CONFIG", Len(bs), Join(bs)),
          Rec("log", "CONFIG_SASL", 0, SaslMode(u)) >>

ConfigTags == {"CONFIG", "CONFIG_SASL", "CONFIG_USERNAME", "CONFIG_PASSWORD",
               "CREDENTIALS_EMPTY"}

-----------------------------------------------------------------------------
(* The state before onModuleInit runs *)

\* Everything but the credentials
InitRun ==
    /\ impl \in {"diag", "basic"}
    /\ envBrokers \in RawInputs
    /\ debugKafkaJs \in BOOLEAN
    /\ pc = "start"
    /\ brokers = <<>>
    /\ idx = 0
    /\ sock = "none"
    /\ listeners = {}
    /\ settled = Pending
    /\ doneCalls = 0
    /\ sockets = <<>>
    /\ dnsCalls = 0
    /\ tcpCalls = 0
    /\ admin = "undefined"
    /\ connectCalls = 0
    /\ listCalls = 0
    /\ disconnectCalls = 0
    /\ failedAt = "none"
    /\ caught = NoError
    /\ log = <<>>
    /\ exitCode = 0
    /\ bpc = "creating"
    /\ hpc = [s \in Signals |-> "idle"]
    /\ exited = "no"
    /\ cmsg = <<>>
    /\ chints = [w \in {"diag", "basic"} |-> NotRun]
    /\ sasl = NoSasl
    /\ clientLog = <<>>
    /\ masked = <<>>

\* A run without credentials: KAFKA_USERNAME and KAFKA_PASSWORD are unset
Init ==
    /\ InitRun
    /\ username = <<>>
    /\ password = <<>>

probeVars == <<sock, listeners, settled, doneCalls, sockets, tcpCalls>>
adminVars == <<admin, connectCalls, listCalls, disconnectCalls>>
inputVars == <<impl, envBrokers, debugKafkaJs, username, password>>
harnessVars == <<cmsg, chints>>
auxVars == <<clientLog, masked>>
shutdownVars == <<bpc, hpc, exited>>

-----------------------------------------------------------------------------
(* onModuleInit *)

\* Lines 99-105 of part_000: the head of one iteration of the preflight loop,
\* up to the call of dns.lookup
StartPreflight(bs, i, lg) ==
    /\ pc' = "dns_wait"
    /\ idx' = i
    /\ dnsCalls' = dnsCalls + 1
    /\ log' = lg \o <<Rec("log", "PREFLIGHT", i, bs[i])>>
    /\ UNCHANGED <<admin, connectCalls, sasl>>

\* Lines 124-191 of part_000 (35-54 of kafka.service.ts): new Kafka(...),
\* this.admin = kafka.admin(), and the call of admin.connect()
StartConnect(lg) ==
    /\ pc' = "connect_wait"
    /\ sasl' = SaslOption(username, password)
    /\ admin' = "created"
    /\ connectCalls' = connectCalls + 1
    /\ log' = lg \o <<Rec("log", "CONNECTING", 0, <<>>)>>
    /\ UNCHANGED <<idx, dnsCalls>>

\* Lines 50-105 of part_000, lines 12-54 of kafka.service.ts: the
\* configuration, the empty-list return, and the run up to the first await
Boot ==
    /\ pc = "start"
    /\ exited = "no"
    /\ LET bs == ParseBrokers(envBrokers)
           lg == IF impl = "diag"
                 THEN ConfigDiag(envBrokers, bs, username, password)
                 ELSE <<>>
       IN  /\ brokers' = bs
           /\ IF Len(bs) = 0
              THEN /\ pc' = "done"
                   /\ log' = lg \o <<Rec("error", "BROKERS_EMPTY", 0, <<>>)>>
                   /\ UNCHANGED <<idx, dnsCalls, admin, connectCalls, sasl>>
              ELSE IF impl = "diag"
              THEN StartPreflight(bs, 1, lg)
              ELSE StartConnect(ConfigBasic(bs, username, password))
    /\ UNCHANGED <<auxVars, inputVars, probeVars, listCalls, disconnectCalls, failedAt,
                   caught, exitCode, shutdownVars, harnessVars>>

\* Lines 22-40: tcpProbe creates the socket, arms the timeout, registers the
\* three once-listeners and calls socket.connect, which throws on a bad port:
\* the executor's throw rejects the promise and the await at line 113 rethrows
TcpProbeStart(port) ==
    /\ tcpCalls' = tcpCalls + 1
    /\ listeners' = SocketEvents
    /\ doneCalls' = 0
    /\ IF ValidPort(port)
       THEN /\ sock' = "connecting"
            /\ settled' = Pending
            /\ pc' = "tcp_wait"
       ELSE /\ sock' = "unconnected"
            /\ settled' = [state |-> "rejected", outcome |-> "threw"]
            /\ pc' = "threw"

\* The catch block of the lookup ending the run: no tcpProbe after a DNS failure
DnsSettleAbortOnFail(ok) ==
    /\ pc = "dns_wait"
    /\ exited = "no"
    /\ log' = log \o <<IF ok THEN Rec("log", "DNS_OK", idx, HostOf(brokers[idx]))
                             ELSE Rec("error", "DNS_FAIL", idx, HostOf(brokers[idx]))>>
    /\ IF ok
       THEN TcpProbeStart(PortOf(brokers[idx]))
       ELSE /\ pc' = "done"
            /\ UNCHANGED <<tcpCalls, listeners, doneCalls, sock, settled>>
    /\ UNCHANGED <<sasl, auxVars, inputVars, brokers, idx, sockets, dnsCalls, adminVars, failedAt,
                   caught, exitCode, shutdownVars, harnessVars>>

\* Lines 105-113: dns.lookup settles, its record is logged and tcpProbe starts
DnsSettle(ok) ==
    /\ pc = "dns_wait"
    /\ exited = "no"
    /\ log' = log \o <<IF ok THEN Rec("log", "DNS_OK", idx, HostOf(brokers[idx]))
                             ELSE Rec("error", "DNS_FAIL", idx, HostOf(brokers[idx]))>>
    /\ TcpProbeStart(PortOf(brokers[idx]))
    /\ UNCHANGED <<sasl, auxVars, inputVars, brokers, idx, sockets, dnsCalls, adminVars, failedAt,
                   caught, exitCode, shutdownVars, harnessVars>>

\* Lines 26-31: done destroys the socket and resolves the promise; a promise
\* that is already settled ignores the resolve
Done(outcome) ==
    /\ sock' = "destroyed"
    /\ doneCalls' = doneCalls + 1
    /\ settled' = IF settled.state = "pending"
                  THEN [state |-> "resolved", outcome |-> outcome]
                  ELSE settled

\* Lines 35-37: the socket emits an event whose once-listener is registered
SocketEvent(e) ==
    /\ pc = "tcp_wait"
    /\ exited = "no"
    /\ e \in listeners
    /\ listeners' = listeners \ {e}
    /\ Done(OutcomeOf(e))
    /\ UNCHANGED <<sasl, auxVars, inputVars, pc, brokers, idx, sockets, dnsCalls, tcpCalls,
                   adminVars, failedAt, caught, log, exitCode, shutdownVars,
                   harnessVars>>

\* A failed preflight probe reported as the failure of the connection
TcpRecsFatal(outcome, i) ==
    IF outcome = "success"
    THEN <<Rec("log", "TCP_OK", i, <<>>)>>
    ELSE <<Rec("error", "TCP_FAIL", i, ProbeErrorText(outcome)),
           Rec("error", "CONNECTION_FAILED", i, <<>>)>>

\* Lines 114-121: the records of the TCP step of broker i
TcpRecs(outcome, i) ==
    IF outcome = "success"
    THEN <<Rec("log", "TCP_OK", i, <<>>)>>
    ELSE <<Rec("error", "TCP_FAIL", i, ProbeErrorText(outcome)),
           Rec("error", "TCP_FAIL_REASON", i, <<>>)>>

\* Lines 113-122: the await of tcpProbe resumes, the TCP record is logged, and
\* the loop goes to its next broker or, after the last, to the admin client
TcpProbeReturn ==
    /\ pc = "tcp_wait"
    /\ exited = "no"
    /\ settled.state = "resolved"
    /\ sockets' = Append(sockets, sock)
    /\ sock' = "none"
    /\ listeners' = {}
    /\ settled' = Pending
    /\ doneCalls' = 0
    /\ LET lg == log \o TcpRecs(settled.outcome, idx)
       IN  IF idx < Len(brokers)
           THEN StartPreflight(brokers, idx + 1, lg)
           ELSE StartConnect(lg)
    /\ UNCHANGED <<auxVars, inputVars, brokers, tcpCalls, listCalls, disconnectCalls,
                   failedAt, caught, exitCode, shutdownVars, harnessVars>>

\* The catch block, entered from the await that rejected
Catch(site, err) ==
    /\ pc' = "done"
    /\ failedAt' = site
    /\ caught' = err
    /\ log' = log \o CatchRecs(impl, err)
    /\ exitCode' = IF impl = "basic" THEN 1 ELSE exitCode

\* A try that encloses admin.connect() alone: after its catch block the run
\* goes on to admin.listTopics()
ConnectSettleFallThrough(ok, err) ==
    /\ pc = "connect_wait"
    /\ exited = "no"
    /\ pc' = "list_wait"
    /\ listCalls' = listCalls + 1
    /\ IF ok
       THEN /\ admin' = "connected"
            /\ log' = log \o <<Rec("log", "CONNECTED", 0, <<>>)>>
            /\ UNCHANGED <<failedAt, caught, exitCode>>
       ELSE /\ failedAt' = "connect"
            /\ caught' = err
            /\ log' = log \o CatchRecs(impl, err)
            /\ UNCHANGED <<admin, exitCode>>
    /\ UNCHANGED <<sasl, auxVars, inputVars, brokers, idx, probeVars, dnsCalls, connectCalls,
                   disconnectCalls, shutdownVars, harnessVars>>

\* Lines 191-195 (54-57): admin.connect() settles
ConnectSettle(ok, err) ==
    /\ pc = "connect_wait"
    /\ exited = "no"
    /\ IF ok
       THEN /\ pc' = "list_wait"
            /\ admin' = "connected"
            /\ listCalls' = listCalls + 1
            /\ log' = log \o <<Rec("log", "CONNECTED", 0, <<>>)>>
                          \o (IF impl = "diag"
                              THEN <<Rec("log", "LISTING", 0, <<>>)>>
                              ELSE <<>>)
            /\ UNCHANGED <<failedAt, caught, exitCode>>
       ELSE /\ Catch("connect", err)
            /\ UNCHANGED <<admin, listCalls>>
    /\ UNCHANGED <<sasl, auxVars, inputVars, brokers, idx, probeVars, dnsCalls, connectCalls,
                   disconnectCalls, shutdownVars, harnessVars>>

\* Lines 195-201 (57-58): admin.listTopics() settles with n topics, or rejects
ListSettle(ok, n, err) ==
    /\ pc = "list_wait"
    /\ exited = "no"
    /\ IF ok
       THEN /\ pc' = "done"
            /\ log' = log \o <<Rec("log", "KAFKA_REACHABLE", n, <<>>)>>
                          \o (IF impl = "diag" /\ debugKafkaJs
                              THEN <<Rec("log", "TOPICS_SAMPLE", Min(n, 10), <<>>)>>
                              ELSE <<>>)
            /\ UNCHANGED <<failedAt, caught, exitCode>>
       ELSE Catch("listTopics", err)
    /\ UNCHANGED <<sasl, auxVars, inputVars, brokers, idx, probeVars, dnsCalls, adminVars,
                   shutdownVars, harnessVars>>

-----------------------------------------------------------------------------
(* bootstrap() of main.ts and onModuleDestroy *)

\* main.ts lines 9-27: createApplicationContext resolved (onModuleInit
\* returned), the signal handlers are registered
BootstrapCreated ==
    /\ bpc = "creating"
    /\ pc = "done"
    /\ exited = "no"
    /\ bpc' = "running"
    /\ log' = log \o <<Rec("log", "CONTEXT_CREATED", 0, <<>>)>>
    /\ UNCHANGED <<sasl, auxVars, inputVars, pc, brokers, idx, probeVars, dnsCalls, adminVars,
                   failedAt, caught, exitCode, hpc, exited, harnessVars>>

\* main.ts lines 30-35: onModuleInit rejected, bootstrap's catch exits with 1
BootstrapFatal ==
    /\ bpc = "creating"
    /\ pc = "threw"
    /\ exited = "no"
    /\ bpc' = "fatal"
    /\ exited' = "exit1"
    /\ UNCHANGED <<sasl, auxVars, inputVars, pc, brokers, idx, probeVars, dnsCalls, adminVars,
                   failedAt, caught, log, exitCode, hpc, harnessVars>>

\* A signal before main.ts line 18 registered a handler ends the process
SignalDefault ==
    /\ bpc = "creating"
    /\ pc # "threw"
    /\ exited = "no"
    /\ exited' = "killed"
    /\ UNCHANGED <<sasl, auxVars, inputVars, pc, brokers, idx, probeVars, dnsCalls, adminVars,
                   failedAt, caught, log, exitCode, bpc, hpc, harnessVars>>

\* onModuleDestroy disconnecting only an admin client that had connected
SignalHandlerConnectedOnly(sig) ==
    /\ bpc = "running"
    /\ exited = "no"
    /\ hpc[sig] = "idle"
    /\ IF admin = "connected"
       THEN /\ hpc' = [hpc EXCEPT ![sig] = "disconnecting"]
            /\ disconnectCalls' = disconnectCalls + 1
            /\ log' = log \o <<Rec("warn", "SHUTDOWN", 0, <<>>)>>
       ELSE /\ hpc' = [hpc EXCEPT ![sig] = "closed"]
            /\ log' = log \o <<Rec("warn", "SHUTDOWN", 0, <<>>)>>
            /\ UNCHANGED disconnectCalls
    /\ UNCHANGED <<sasl, auxVars, inputVars, pc, brokers, idx, probeVars, dnsCalls, admin,
                   connectCalls, listCalls, failedAt, caught, exitCode, bpc,
                   exited, harnessVars>>

\* main.ts lines 18-20 (23-25) and onModuleDestroy up to its await: the
\* handler of sig logs, calls app.close(), and onModuleDestroy calls
\* admin.disconnect() when this.admin is set
SignalHandler(sig) ==
    /\ bpc = "running"
    /\ exited = "no"
    /\ hpc[sig] = "idle"
    /\ IF admin # "undefined"
       THEN /\ hpc' = [hpc EXCEPT ![sig] = "disconnecting"]
            /\ disconnectCalls' = disconnectCalls + 1
            /\ log' = log \o <<Rec("warn", "SHUTDOWN", 0, <<>>)>>
                          \o (IF impl = "diag"
                              THEN <<Rec("log", "DISCONNECTING", 0, <<>>)>>
                              ELSE <<>>)
       ELSE /\ hpc' = [hpc EXCEPT ![sig] = "closed"]
            /\ log' = log \o <<Rec("warn", "SHUTDOWN", 0, <<>>)>>
            /\ UNCHANGED disconnectCalls
    /\ UNCHANGED <<sasl, auxVars, inputVars, pc, brokers, idx, probeVars, dnsCalls, admin,
                   connectCalls, listCalls, failedAt, caught, exitCode, bpc,
                   exited, harnessVars>>

\* part_000 lines 262-267 (kafka.service.ts 90-95): admin.disconnect() settles;
\* its rejection is caught, and logged as a warning by part_000 only
DisconnectSettle(sig, ok) ==
    /\ hpc[sig] = "disconnecting"
    /\ exited = "no"
    /\ hpc' = [hpc EXCEPT ![sig] = "closed"]
    /\ IF ok
       THEN /\ admin' = "disconnected"
            /\ log' = log \o <<Rec("log", "DISCONNECTED", 0, <<>>)>>
       ELSE /\ log' = log \o (IF impl = "diag"
                              THEN <<Rec("warn", "DISCONNECT_ERROR", 0, <<>>)>>
                              ELSE <<>>)
            /\ UNCHANGED admin
    /\ UNCHANGED <<sasl, auxVars, inputVars, pc, brokers, idx, probeVars, dnsCalls, connectCalls,
                   listCalls, disconnectCalls, failedAt, caught, exitCode, bpc,
                   exited, harnessVars>>

\* main.ts line 21 (26): app.close() resolved, process.exit(0)
HandlerExit(sig) ==
    /\ hpc[sig] = "closed"
    /\ exited = "no"
    /\ exited' = "exit0"
    /\ UNCHANGED <<sasl, auxVars, inputVars, pc, brokers, idx, probeVars, dnsCalls, adminVars,
                   failedAt, caught, log, exitCode, bpc, hpc, harnessVars>>

-----------------------------------------------------------------------------
(* The run of the process *)

\* Numbers of topics admin.listTopics() is made to return
TopicCounts == {0, 2}

-----------------------------------------------------------------------------
(* The kafkajs logger bridge (part_000 lines 125-157, 172-173) *)

\* The levels of kafkajs, imported at line 9
LogLevel == [NOTHING |-> 0, ERROR |-> 1, WARN |-> 2, INFO |-> 4, DEBUG |-> 5]

\* Line 172: logLevel: debugKafkaJs ? logLevel.DEBUG : logLevel.ERROR; the
\* client hands the logger no entry above this level
ConfiguredLogLevel(debug) == IF debug THEN LogLevel.DEBUG ELSE LogLevel.ERROR

\* Lines 148-155: the Nest level an entry is emitted at, "none" when it is not
NestLevel(level, debug) ==
    IF level >= LogLevel.ERROR THEN "error"
    ELSE IF level >= LogLevel.WARN THEN "warn"
    ELSE IF debug THEN "log"
    ELSE "none"

StrConnectionTimeout ==
    <<"C","o","n","n","e","c","t","i","o","n"," ","t","i","m","e","o","u","t">>

\* The entries kafkajs surfaces, one of each level: level, log.message and,
\* for the entry at ERROR, log.error
ClientEntries ==
    { [level |-> LogLevel.ERROR, message |-> MsgClosedConnection,
       error |-> [name |-> NameConnectionError, message |-> MsgClosedConnection,
                  stack |-> 10]],
      [level |-> LogLevel.WARN, message |-> StrConnectionTimeout, error |-> NoError],
      [level |-> LogLevel.INFO, message |-> StrConnectionTimeout, error |-> NoError],
      [level |-> LogLevel.DEBUG, message |-> StrConnectionTimeout, error |-> NoError] }

\* Lines 127-145: msg and the JSON of extra, as the text of the record
ClientLogText(entry) == entry.message \o entry.error.name \o entry.error.message

\* Lines 126-156: kafkajs hands one entry to the function nestKafkaLogger
\* returned, while the admin client is at work
ClientLog(entry) ==
    /\ impl = "diag"
    /\ pc \in {"connect_wait", "list_wait"}
    /\ exited = "no"
    /\ Len(clientLog) < MaxClientLogs
    /\ entry.level <= ConfiguredLogLevel(debugKafkaJs)
    /\ LET out == NestLevel(entry.level, debugKafkaJs)
       IN  /\ clientLog' = Append(clientLog, [level |-> entry.level, out |-> out])
           /\ log' = IF out = "none" THEN log
                     ELSE Append(log, Rec(out, "KAFKAJS", entry.level, ClientLogText(entry)))
    /\ UNCHANGED <<sasl, inputVars, masked, pc, brokers, idx, probeVars, dnsCalls,
                   adminVars, failedAt, caught, exitCode, shutdownVars, harnessVars>>

\* onModuleInit under bootstrap(), up to the registration of the signal handlers
Next ==
    \/ Boot
    \/ \E ok \in BOOLEAN : DnsSettle(ok)
    \/ \E e \in SocketEvents : SocketEvent(e)
    \/ TcpProbeReturn
    \/ ConnectSettle(TRUE, NoError)
    \/ \E err \in ErrorSamples : ConnectSettle(FALSE, err)
    \/ \E n \in TopicCounts : ListSettle(TRUE, n, NoError)
    \/ \E err \in ErrorSamples : ListSettle(FALSE, 0, err)
    \/ BootstrapCreated
    \/ BootstrapFatal

Spec == Init /\ [][Next]_vars

\* What the timers of the code make happen: the socket timeout armed at line
\* 33 fires, the client's connectionTimeout, requestTimeout and retry budget
\* (lines 175-183) settle admin.connect() and listTopics(), and a settled
\* promise resumes its await. dns.lookup (line 105) is given no timeout, so
\* nothing makes it settle.
Fairness ==
    /\ WF_vars(Boot)
    /\ WF_vars(SocketEvent("timeout"))
    /\ WF_vars(TcpProbeReturn)
    /\ WF_vars(ConnectSettle(TRUE, NoError) \/ \E err \in ErrorSamples : ConnectSettle(FALSE, err))
    /\ WF_vars((\E n \in TopicCounts : ListSettle(TRUE, n, NoError))
                   \/ \E err \in ErrorSamples : ListSettle(FALSE, 0, err))
    /\ WF_vars(BootstrapCreated)
    /\ WF_vars(BootstrapFatal)

SpecFair == Init /\ [][Next]_vars /\ Fairness

\* The same with the signals the process may receive
InitShutdown ==
    /\ Init
    /\ envBrokers \in RawInputsUpTo(MaxShutdownTokens)

NextShutdown ==
    \/ Next
    \/ SignalDefault
    \/ \E sig \in Signals : SignalHandler(sig)
    \/ \E sig \in Signals, ok \in BOOLEAN : DisconnectSettle(sig, ok)
    \/ \E sig \in Signals : HandlerExit(sig)

SpecShutdown == InitShutdown /\ [][NextShutdown]_vars

\* The run with credentials and with the entries kafkajs surfaces
InitLogging ==
    /\ InitRun
    /\ envBrokers \in LoggingInputs
    /\ username \in Usernames
    /\ password \in Passwords

NextLogging ==
    \/ Next
    \/ \E entry \in ClientEntries : ClientLog(entry)

SpecLogging == InitLogging /\ [][NextLogging]_vars

-----------------------------------------------------------------------------
(* The classifiers alone, on error messages made of fragments *)

Fragments ==
    { MsgSaslOverSsl, MsgClosedConnection, MsgEnotfound, MsgEconnrefused,
      MsgTimedOut, MsgNotAuthorized, MsgBrokerNotAvailable, <<"T">>, <<"L","S">> }

RECURSIVE Concat(_)
Concat(ss) == IF ss = <<>> THEN <<>> ELSE Head(ss) \o Concat(Tail(ss))

Messages ==
    {Concat(fs) : fs \in UNION {[1..n -> Fragments] : n \in 0..MaxFrags}}

InitClassify ==
    /\ Init
    /\ impl = "diag"
    /\ envBrokers = <<>>
    /\ debugKafkaJs = FALSE

\* The harness picks the message of the error
PickMessage(m) ==
    /\ cmsg = <<>>
    /\ \A w \in DOMAIN chints : ~chints[w].ran
    /\ cmsg' = m
    /\ UNCHANGED <<sasl, auxVars, inputVars, pc, brokers, idx, probeVars, dnsCalls, adminVars,
                   failedAt, caught, log, exitCode, shutdownVars, chints>>

\* part_000 lines 213-250 (kafka.service.ts 64-80): the message is
\* lower-cased and run through the if statements of classifier w
RunClassifier(w) ==
    /\ ~chints[w].ran
    /\ chints' = [chints EXCEPT ![w] =
                      [ran |-> TRUE, hyps |-> Classify(w, ToLowerCase(cmsg))]]
    /\ UNCHANGED <<sasl, auxVars, inputVars, pc, brokers, idx, probeVars, dnsCalls, adminVars,
                   failedAt, caught, log, exitCode, shutdownVars, cmsg>>

NextClassify ==
    \/ \E m \in Messages : PickMessage(m)
    \/ \E w \in {"diag", "basic"} : RunClassifier(w)

SpecClassify == InitClassify /\ [][NextClassify]_vars

-----------------------------------------------------------------------------
(* mask alone, on every string of a small alphabet and on one long password *)

MaskAlphabet == {"a", "b", "*"}

MaskInputs ==
    UNION {[1..n -> MaskAlphabet] : n \in 0..MaxMaskLen} \cup {StrHunter2pass}

InitMask ==
    /\ InitRun
    /\ impl = "diag"
    /\ envBrokers = <<>>
    /\ debugKafkaJs = FALSE
    /\ username = <<>>
    /\ password \in MaskInputs

\* mask is applied to the password, then to its own result
ApplyMask ==
    /\ Len(masked) < 2
    /\ masked' = Append(masked, Mask(IF masked = <<>> THEN password
                                     ELSE masked[Len(masked)]))
    /\ UNCHANGED <<sasl, inputVars, clientLog, pc, brokers, idx, probeVars, dnsCalls,
                   adminVars, failedAt, caught, log, exitCode, shutdownVars,
                   harnessVars>>

NextMask == ApplyMask

SpecMask == InitMask /\ [][NextMask]_vars

-----------------------------------------------------------------------------
(* Claims *)

\* onModuleInit is over: it returned or it threw
RunEnded == pc \in {"done", "threw"}

\* The records of log with tag t that are about broker i
RecordsOf(t, i) == {k \in DOMAIN log : log[k].tag = t /\ log[k].n = i}

\* C1: in every run of part_000's onModuleInit with N >= 1 broker tokens, the
\* Network Probe (dns.lookup, then tcpProbe) is started exactly N times, once
\* per broker, whatever happened to the earlier brokers: no broker ends the
\* loop early.
C1_EveryBrokerProbed ==
    (impl = "diag" /\ RunEnded /\ Len(brokers) >= 1) =>
        /\ dnsCalls = Len(brokers)
        /\ tcpCalls = Len(brokers)
        /\ \A i \in 1..Len(brokers) : Cardinality(RecordsOf("PREFLIGHT", i)) = 1

\* C2: whenever the broker list is not empty, admin.connect() is attempted
\* after the preflight loop, whatever the DNS and TCP outcomes: no run with
\* brokers ends without the attempt.
C2_ConnectAttempted ==
    (RunEnded /\ Len(brokers) >= 1) => connectCalls >= 1

\* C3: an empty, blank or all-empty-token broker list gives an ERROR record,
\* a failure verdict, no DNS lookup, no TCP probe, no client and no connect
\* attempt; and the empty list is the only way a run ends before the admin
\* connect attempt.
C3_EmptyListOnlyEarlyExit ==
    /\ (pc # "start" /\ Len(brokers) = 0) =>
           /\ \E k \in DOMAIN log : log[k].tag = "BROKERS_EMPTY" /\ log[k].lvl = "error"
           /\ Verdict(log) = "failure"
           /\ dnsCalls = 0 /\ tcpCalls = 0
           /\ admin = "undefined" /\ connectCalls = 0
    /\ (RunEnded /\ connectCalls = 0) => Len(brokers) = 0

\* C4: nothing but the empty broker list ends the run early: for every broker
\* token, bad ports included, and every DNS, TCP, connect or listTopics
\* failure, onModuleInit does not throw, tcpProbe never rejects, and bootstrap
\* never reaches process.exit(1).
C4_NothingEscapes ==
    /\ pc # "threw"
    /\ settled.state # "rejected"
    /\ exited # "exit1"

\* C5: every tcpProbe reports exactly one of success, timeout and error as
\* its result, whatever the order of the socket's events, and its socket is
\* destroyed by the time the result is returned: no socket is left after N
\* probes.
C5_OneOutcomeSocketReleased ==
    /\ settled.state = "resolved" =>
           /\ settled.outcome \in {"success", "timeout", "error"}
           /\ doneCalls >= 1
           /\ sock = "destroyed"
    /\ pc # "tcp_wait" =>
           /\ settled.state # "rejected"
           /\ Len(sockets) = tcpCalls
           /\ \A i \in DOMAIN sockets : sockets[i] = "destroyed"

Range(f) == {f[i] : i \in DOMAIN f}

\* The hypotheses of the families of classifier w with a pattern in msg
MatchingFamilies(w, msg) ==
    {FamiliesOf(w)[f].hyp :
        f \in {g \in DOMAIN FamiliesOf(w) : FamilyHit(FamiliesOf(w)[g], msg)}}

C7_ConnectFailure ==
    failedAt = "connect" =>
        /\ listCalls = 0
        /\ admin # "connected"
        /\ Tags(log) \cap {"CONNECTED", "LISTING", "KAFKA_REACHABLE"} = {}
        /\ Diagnoses(log) = MatchingFamilies(impl, ToLowerCase(caught.message))
        /\ Verdict(log) = "failure"

C7_Witness ==
    /\ failedAt = "connect"
    /\ bpc = "running"
    /\ caught.message = MsgSaslOverSsl
    /\ {"SASL_AUTH_FAILURE", "TLS_MISMATCH"} \subseteq Diagnoses(log)

FailureRecs ==
    SelectSeq(log, LAMBDA r :
        r.tag \in {"CONNECTION_FAILED", "ERROR", "STACK", "KEEP_ALIVE"} \cup Hypotheses)

\* C9: a listTopics failure after a successful connect is reported apart from
\* a connect failure (ADMIN_CALL against AUTH/HANDSHAKE): the records emitted
\* for it are records no connect failure emits.
C9_DistinctFailureRecords ==
    failedAt = "listTopics" =>
        \A e \in ErrorSamples : FailureRecs # CatchRecs(impl, e)

\* All orders in which the if statements of a classifier can be written
RECURSIVE Permutations(_)
Permutations(S) ==
    IF S = {} THEN {<<>>}
    ELSE UNION {{<<x>> \o p : p \in Permutations(S \ {x})} : x \in S}

Orders(n) == Permutations(1..n)

DiagOrders == Orders(Len(DiagFamilies))

BasicOrders == Orders(Len(BasicFamilies))

\* C10: classification is non-exclusive and does not depend on the order in
\* which the families are tested: for every message the hypotheses emitted are
\* those of all families with a matching substring, in every order of the if
\* statements, and "SASL authentication failed due to SSL handshake error"
\* gives both SASL_AUTH_FAILURE and TLS_MISMATCH.
C10_NonExclusiveAnyOrder ==
    /\ \A w \in DOMAIN chints :
           chints[w].ran =>
               LET all == MatchingFamilies(w, ToLowerCase(cmsg))
               IN  /\ Range(chints[w].hyps) = all
                   /\ Len(chints[w].hyps) = Cardinality(all)
                   /\ cmsg = MsgSaslOverSsl =>
                          {"SASL_AUTH_FAILURE", "TLS_MISMATCH"} \subseteq all
    /\ (\A w \in DOMAIN chints : chints[w].ran) =>
           \A w \in DOMAIN chints :
               LET fams == FamiliesOf(w)
                   msg  == ToLowerCase(cmsg)
                   hit  == [f \in DOMAIN fams |-> FamilyHit(fams[f], msg)]
               IN  \A order \in (IF w = "diag" THEN DiagOrders ELSE BasicOrders) :
                       Range(RunFamilies(fams, order, hit, <<>>)) = Range(chints[w].hyps)

C10_Witness ==
    /\ cmsg = MsgSaslOverSsl
    /\ \A w \in DOMAIN chints :
           /\ chints[w].ran
           /\ Range(chints[w].hyps) = {"SASL_AUTH_FAILURE", "TLS_MISMATCH"}

\* The classification table: each hypothesis with the substrings that are to
\* trigger it
TableFamilies ==
    { [hyp |-> "SASL_AUTH_FAILURE",
       patterns |-> {StrSasl, StrAuthentication, StrNotAuthorized}],
      [hyp |-> "TLS_MISMATCH",
       patterns |-> {StrSsl, StrTls, StrCertificate, StrSelfSigned}],
      [hyp |-> "DNS_UNRESOLVED",
       patterns |-> {StrGetaddrinfo, StrEnotfound, StrNameResolution}],
      [hyp |-> "NETWORK_UNREACHABLE",
       patterns |-> {StrEconnrefused, StrTimedOut, StrEtimedout}],
      [hyp |-> "LEADER_METADATA_MISMATCH",
       patterns |-> {StrBrokerNotAvailable, StrNotALeader, StrMetadata}],
      [hyp |-> "CONNECTION_RESET", patterns |-> {StrClosedConnection}] }

\* The hypotheses the table gives the lower-cased message msg
TableHypotheses(msg) == {fam.hyp : fam \in {g \in TableFamilies : FamilyHit(g, msg)}}

\* C11: for every message and every letter case, a classifier that has run
\* has emitted exactly the hypotheses of the classification table: each of
\* the table's patterns in the message gives its hypothesis ('not authorized'
\* SASL_AUTH_FAILURE, 'econnrefused' NETWORK_UNREACHABLE, 'closed connection'
\* CONNECTION_RESET, ...), and no hypothesis is emitted without one of its
\* own patterns in the message.
C11_TablePatterns ==
    \A w \in DOMAIN chints :
        chints[w].ran => Range(chints[w].hyps) = TableHypotheses(ToLowerCase(cmsg))

\* The substrings of the TLS family, the same in both classifiers
TlsPatterns == {StrSsl, StrTls, StrCertificate, StrSelfSigned}

\* The TLS-mismatch scenario: part_000 ran, every broker's TCP probe
\* connected, and admin.connect() failed with a 'closed connection' message
TlsScenario ==
    /\ impl = "diag"
    /\ failedAt = "connect"
    /\ Len(brokers) >= 1
    /\ \A i \in 1..Len(brokers) : RecordsOf("TCP_OK", i) # {}
    /\ Includes(ToLowerCase(caught.message), StrClosedConnection)

\* C12 as claimed: in the TLS-mismatch scenario the diagnoses include both
\* TLS_MISMATCH and CONNECTION_RESET.
C12_TlsAndReset ==
    TlsScenario => {"TLS_MISMATCH", "CONNECTION_RESET"} \subseteq Diagnoses(log)

\* C12 as amended: in the TLS-mismatch scenario the diagnoses include
\* CONNECTION_RESET, and TLS_MISMATCH is among them only when the message
\* also holds one of 'ssl', 'tls', 'certificate', 'self signed'; the kafkajs
\* message "Closed connection" gives CONNECTION_RESET alone.
C12_ResetAndTlsOnlyOnTlsText ==
    TlsScenario =>
        /\ "CONNECTION_RESET" \in Diagnoses(log)
        /\ "TLS_MISMATCH" \in Diagnoses(log) <=>
               \E p \in TlsPatterns : Includes(ToLowerCase(caught.message), p)
        /\ caught.message = MsgClosedConnection =>
               Diagnoses(log) = {"CONNECTION_RESET"}

C12_Witness ==
    /\ TlsScenario
    /\ caught.message = MsgClosedConnection
    /\ Diagnoses(log) = {"CONNECTION_RESET"}
    /\ RunEnded

\* C13: every entry kafkajs surfaces is emitted at the level of the fixed
\* mapping: ERROR at error, WARN at warn, INFO and DEBUG at log (INFO) when
\* the verbosity flag is on and not at all when it is off; no WARN, INFO or
\* DEBUG entry is emitted at error.
C13_SeverityMapping ==
    \A i \in DOMAIN clientLog :
        LET e == clientLog[i]
        IN  /\ e.level = LogLevel.ERROR => e.out = "error"
            /\ e.level = LogLevel.WARN => e.out = "warn"
            /\ e.level \in {LogLevel.INFO, LogLevel.DEBUG} =>
                   e.out = (IF debugKafkaJs THEN "log" ELSE "none")
            /\ e.level # LogLevel.ERROR => e.out # "error"

StrHuStarsSs == <<"h","u","*","*","*","*","s","s">>

\* C14: mask is idempotent and shows only the first 2 and last 2 characters:
\* mask(mask(s)) = mask(s) for every s; for length(s) > 4 the result is the
\* first two characters of s, four stars, and the last two characters of s
\* ("hunter2pass" gives "hu****ss"); for 1 <= length(s) <= 4 the result is
\* "****" whatever s is.
C14_MaskIdempotentShape ==
    /\ Len(masked) >= 1 =>
           LET s == password
               m == masked[1]
           IN  /\ Len(s) > 4 =>
                      m = <<s[1], s[2], "*", "*", "*", "*", s[Len(s) - 1], s[Len(s)]>>
               /\ Len(s) \in 1..4 => m = <<"*", "*", "*", "*">>
               /\ s = StrHunter2pass => m = StrHuStarsSs
    /\ Len(masked) = 2 => masked[2] = masked[1]

C14_Witness ==
    /\ password = StrHunter2pass
    /\ masked = <<StrHuStarsSs, StrHuStarsSs>>

\* The configuration records of a log
ConfigRecsOf(lg) == SelectSeq(lg, LAMBDA r : r.tag \in ConfigTags)

\* The configuration records of a run with password q in place of password
ConfigWith(q) ==
    IF impl = "diag" THEN ConfigDiag(envBrokers, brokers, username, q)
    ELSE IF Len(brokers) = 0 THEN <<>>
    ELSE ConfigBasic(brokers, username, q)

\* p and q are longer than 4 characters and differ in the characters between
\* the first two and the last two only
SameOutsideMiddle(p, q) ==
    /\ Len(p) > 4 /\ Len(q) > 4
    /\ SubSeq(p, 1, 2) = SubSeq(q, 1, 2)
    /\ SubSeq(p, Len(p) - 1, Len(p)) = SubSeq(q, Len(q) - 1, Len(q))

\* C15: no record of the log (configuration print, preflight record, kafkajs
\* entry with its error context, error or hint record) holds the raw
\* username or the raw password, and the records of a run are those of the
\* run with any password that differs in the masked-out middle characters
\* only.
C15_NoRawCredential ==
    /\ \A k \in DOMAIN log :
           /\ username # <<>> => ~Includes(log[k].text, username)
           /\ password # <<>> => ~Includes(log[k].text, password)
    /\ pc # "start" =>
           \A q \in Passwords :
               SameOutsideMiddle(password, q) => ConfigRecsOf(log) = ConfigWith(q)

C15_Witness ==
    /\ impl = "diag"
    /\ username # <<>>
    /\ password = StrHunter2pass
    /\ failedAt = "connect"
    /\ \E k \in DOMAIN log : log[k].tag = "CONFIG_PASSWORD" /\ log[k].text = StrHuStarsSs
    /\ \E k \in DOMAIN log : log[k].tag = "KAFKAJS"
    /\ \E k \in DOMAIN log : log[k].tag = "PREFLIGHT"
    /\ RunEnded

\* new Kafka(...) has run
ClientCreated == admin # "undefined"

\* The sasl mode the configuration print shows
LoggedSaslModes == {log[k].text : k \in {j \in DOMAIN log : log[j].tag = "CONFIG_SASL"}}

\* C16: the credential pair is passed to the client exactly when both the
\* username and the password are present; if either is empty the client has
\* no SASL credentials and the logged sasl mode is 'none'.
C16_SaslOnlyWithBoth ==
    ClientCreated =>
        /\ sasl.set <=> (username # <<>> /\ password # <<>>)
        /\ (username = <<>> \/ password = <<>>) => LoggedSaslModes = {StrNone}

\* C17: with a non-empty broker list, whatever the network does (a DNS
\* lookup, TCP connect, admin connect or listTopics that never answers
\* included), onModuleInit eventually returns and the log carries a terminal
\* verdict.
C17_EventuallyVerdict ==
    Len(ParseBrokers(envBrokers)) >= 1 => <>(pc = "done" /\ Verdict(log) # "none")

\* The DNS records and the TCP result records of broker i, as log positions
DnsRecordsOf(i) == RecordsOf("DNS_OK", i) \cup RecordsOf("DNS_FAIL", i)

TcpRecordsOf(i) == RecordsOf("TCP_OK", i) \cup RecordsOf("TCP_FAIL", i)

\* The preflight of broker i is over: the loop went on, or left for the connect
ProbeOver(i) == idx > i \/ pc \in {"connect_wait", "list_wait", "done"}

\* C18: within the probe of one broker, tcpProbe is attempted once the DNS
\* step is over, whatever its outcome: every DNS record, DNS FAIL included,
\* comes with a tcpProbe call for the same broker; a DNS failure is logged at
\* error and the TCP record of that broker follows it; no TCP record of a
\* broker precedes its DNS record.
C18_TcpAfterDns ==
    impl = "diag" =>
        /\ tcpCalls = Cardinality(UNION {DnsRecordsOf(i) : i \in 1..Len(brokers)})
        /\ \A i \in 1..Len(brokers) :
               /\ Cardinality(DnsRecordsOf(i)) <= 1
               /\ \A k \in TcpRecordsOf(i) : \E j \in DnsRecordsOf(i) : j < k
               /\ \A j \in RecordsOf("DNS_FAIL", i) :
                      /\ log[j].lvl = "error"
                      /\ tcpCalls >= i
                      /\ (ProbeOver(i) /\ ValidPort(PortOf(brokers[i]))) =>
                             \E k \in TcpRecordsOf(i) : j < k

C18_Witness ==
    /\ impl = "diag"
    /\ Len(brokers) = 2
    /\ RecordsOf("DNS_FAIL", 1) # {} /\ RecordsOf("TCP_OK", 1) # {}
    /\ RecordsOf("DNS_FAIL", 2) # {} /\ RecordsOf("TCP_FAIL", 2) # {}
    /\ RunEnded

\* The signal handlers whose app.close() has resolved
ClosedHandlers == {sig \in Signals : hpc[sig] = "closed"}

\* C19: for every arrival order of SIGTERM and SIGINT, the process exits
\* with code 0 only once a disconnect attempt on the admin handle has
\* completed or failed, and every disconnect that settled left its record:
\* 'disconnected' when it completed, a warning when it failed, after which
\* the handler is free to exit with 0 all the same.
C19_ExitAfterDisconnect ==
    /\ (exited = "exit0" /\ admin # "undefined") =>
           /\ disconnectCalls >= 1
           /\ ClosedHandlers # {}
    /\ admin # "undefined" =>
           Cardinality(ClosedHandlers) =
               Cardinality(RecordsOf("DISCONNECTED", 0))
                   + Cardinality({k \in RecordsOf("DISCONNECT_ERROR", 0) :
                                      log[k].lvl = "warn"})

\* s begins with p
StartsWith(s, p) == Len(s) >= Len(p) /\ SubSeq(s, 1, Len(p)) = p

\* C20: when admin.connect() or listTopics() rejects with an error without a
\* message or without a name, the catch block runs to its end: the failure
\* is recorded at error, under the name 'UnknownError' when the error has no
\* name, the verdict is failure, an empty message gives no hypothesis, and
\* onModuleInit returns instead of throwing.
C20_MessagelessError ==
    (failedAt # "none" /\ (caught.message = <<>> \/ caught.name = <<>>)) =>
        /\ pc = "done"
        /\ Verdict(log) = "failure"
        /\ \E k \in DOMAIN log :
               /\ log[k].tag = "ERROR"
               /\ log[k].lvl = "error"
               /\ caught.name = <<>> => StartsWith(log[k].text, StrUnknownError \o StrDash)
               /\ caught.name # <<>> => StartsWith(log[k].text, caught.name \o StrDash)
        /\ caught.message = <<>> => Diagnoses(log) = {}
        /\ IF impl = "diag" THEN RecordsOf("KEEP_ALIVE", 0) # {} ELSE exitCode = 1

C20_Witness ==
    /\ failedAt = "listTopics"
    /\ caught.name = <<>>
    /\ caught.message = <<>>
    /\ pc = "done"
    /\ bpc = "running"
    /\ Verdict(log) = "failure"

=============================================================================
